---- MODULE Spec2Model ----
(***************************************************************************)
(* Model of src/openpgp-gpg.c, the GnuPG backend of debsig-verify.         *)
(*                                                                         *)
(* Strings are sequences of one-character strings; the terminating NUL of  *)
(* a C string is implicit at index Len(s)+1.  Indices are 1-based, so the  *)
(* C offset k of a buffer is index k+1 here.                               *)
(***************************************************************************)
EXTENDS Integers, Sequences, FiniteSets, TLC

VARIABLES gpg_inited,    \* static int gpg_inited
          gpg_tmpdir,    \* static char *gpg_tmpdir (NoDir = NULL, else a directory)
          gpg_prog,      \* static const char *gpg_prog
          GNUPGHOME,     \* the process environment's GNUPGHOME (NoDir = not set here)
          atexit_hooks,  \* how many times cleanup_gpg_tmpdir is registered with atexit
          dirs,          \* temporary directories that exist on disk
          ndirs,         \* temporary directories created so far by mkdtemp
          nremoved,      \* directories removed so far by the cleanup's rm -rf
          fds,           \* pipe descriptors open in the parent
          unreaped,      \* forked verifier children whose status was not collected
          proc,          \* "running", "exited" (exit 0), "aborted" (ohshit), "crashed"
          ncalls,        \* backend calls made so far
          sigbuf,        \* gpg_getSigKeyID's static char buf[2048], up to the last byte written
          op,            \* the last operation performed
          arg,           \* its inputs
          ret,           \* its result
          eff,           \* what the last call did: children forked and reaped,
                         \* descriptors opened and closed, stores outside the buffer
          pipe           \* gpg_getSigKeyID step by step: the two pipes between the
                         \* parent and its child, and where each of the two stands

vars == <<gpg_inited, gpg_tmpdir, gpg_prog, GNUPGHOME, atexit_hooks, dirs, ndirs,
          nremoved, fds, unreaped, proc, ncalls, sigbuf, op, arg, ret, eff, pipe>>

(***************************************************************************)
(* Bounds of the model.                                                    *)
(***************************************************************************)
MaxCalls == 2        \* backend calls per process run
MaxExit == 2         \* exit statuses 0..MaxExit of a verifier child
MaxLifeLines == 1    \* lines of verifier output in the whole-process specification
MaxKeyLines == 3     \* lines of a colon listing in SpecKeyID
MaxSigLines == 3     \* lines of a packet listing in SpecSigKeyID
MaxFieldLen == 5     \* length of a line handed to get_colon_field in SpecField
MaxFieldNum == 4     \* largest field index asked of get_colon_field in SpecField
MaxSigLen == 4       \* length of the signature fed to the child in SpecPipe, in blocks
MaxPipeCap == 2      \* capacity of a pipe in SpecPipe, in blocks

(***************************************************************************)
(* Program constants.                                                      *)
(***************************************************************************)
BufSize == 2048            \* static char buf[2048]
OPENPGP_FPR_LEN == 40      \* debsig.h; the fixed fingerprint length
COLON_FIELD_FPR_ID == 10
COLON_FIELD_UID_ID == 10

NUL == "NUL"
NL == "\n"
NoDir == 0

Min(S) == CHOOSE x \in S : \A y \in S : x <= y
Take(s, n) == SubSeq(s, 1, IF n < Len(s) THEN n ELSE Len(s))
Drop(s, n) == SubSeq(s, n + 1, Len(s))
Pad(n) == [i \in 1..n |-> "x"]

(***************************************************************************)
(* Results: a C string, NULL, an int, or no return at all (fatal error).   *)
(***************************************************************************)
RNone == [kind |-> "none", val |-> <<>>, n |-> 0]
RNull == [kind |-> "null", val |-> <<>>, n |-> 0]
RStr(s) == [kind |-> "str", val |-> s, n |-> 0]
RInt(i) == [kind |-> "int", val |-> <<>>, n |-> i]
RFatal == [kind |-> "fatal", val |-> <<>>, n |-> 0]

(***************************************************************************)
(* libc string helpers.                                                    *)
(***************************************************************************)
isspace(c) == c \in {" ", "\t", "\n", "\r", "\f"}
isdigit(c) == c \in {"0", "1", "2", "3", "4", "5", "6", "7", "8", "9"}

\* strchrnul(str + p, ':'): the index of the first ':' at or after p, else the NUL's
strchrnul(s, p) ==
    LET I == {i \in p..Len(s) : s[i] = ":"}
    IN IF I = {} THEN Len(s) + 1 ELSE Min(I)

\* strstr(s, m): the index where m first occurs in s, 0 (NULL) when it does not
strstr(s, m) ==
    LET I == {i \in 1..(Len(s) - Len(m) + 1) :
                 s[i] = m[1] /\ SubSeq(s, i, i + Len(m) - 1) = m}
    IN IF I = {} THEN 0 ELSE Min(I)

match_prefix(str, prefix) ==
    Len(str) >= Len(prefix) /\ SubSeq(str, 1, Len(prefix)) = prefix

(***************************************************************************)
(* get_colon_field (lines 128-144).  The loop leaves str ON the colon it   *)
(* found: the source has no str++ after the test.                          *)
(***************************************************************************)
RECURSIVE colon_field_skip(_, _, _, _)
\* the for loop: the index str has after it, 0 when it returned NULL
colon_field_skip(s, p, field, field_num) ==
    IF field < field_num
    THEN LET q == strchrnul(s, p)
         IN IF q > Len(s) THEN 0
            ELSE colon_field_skip(s, q, field + 1, field_num)
    ELSE p

get_colon_field(s, field_num) ==
    LET p == colon_field_skip(s, 1, 1, field_num)
    IN IF p = 0 THEN RNull
       ELSE LET end == strchrnul(s, p)
            IN IF end > Len(s) THEN RNull
               ELSE RStr(SubSeq(s, p, end - 1))

\* the furthest index get_colon_field reads (Len(s)+1 is the line's NUL)
colon_field_reach(s, field_num) ==
    LET p == colon_field_skip(s, 1, 1, field_num)
    IN IF p = 0 THEN Len(s) + 1 ELSE strchrnul(s, p)

(***************************************************************************)
(* The process-wide state as one record, so that a handler can be computed *)
(* step by step and committed at its end.  The fields forks, reaps,        *)
(* opened, closed and oob count what the call under way has done so far:   *)
(* verifier children forked, children waited for, pipe descriptors created *)
(* and closed in the parent, and whether it stored outside the buffer.     *)
(***************************************************************************)
G == [inited |-> gpg_inited, tmpdir |-> gpg_tmpdir, prog |-> gpg_prog,
      home |-> GNUPGHOME, hooks |-> atexit_hooks, dirs |-> dirs, ndirs |-> ndirs,
      nremoved |-> nremoved, fds |-> fds, unreaped |-> unreaped,
      forks |-> 0, reaps |-> 0, opened |-> 0, closed |-> 0, oob |-> FALSE]

Commit(g) ==
    /\ gpg_inited' = g.inited
    /\ gpg_tmpdir' = g.tmpdir
    /\ gpg_prog' = g.prog
    /\ GNUPGHOME' = g.home
    /\ atexit_hooks' = g.hooks
    /\ dirs' = g.dirs
    /\ ndirs' = g.ndirs
    /\ nremoved' = g.nremoved
    /\ fds' = g.fds
    /\ unreaped' = g.unreaped
    /\ eff' = [forks |-> g.forks, reaps |-> g.reaps, opened |-> g.opened,
               closed |-> g.closed, oob |-> g.oob]

\* pipe() or m_pipe() made n descriptors; close() or fclose() released n
Opened(g, n) == [g EXCEPT !.fds = @ + n, !.opened = @ + n]
Closed(g, n) == [g EXCEPT !.fds = @ - n, !.closed = @ + n]
\* subproc_fork() or fork() made the verifier child; subproc_reap() waited for it
Forked(g) == [g EXCEPT !.unreaped = @ + 1, !.forks = @ + 1]
Reaped(g) == [g EXCEPT !.unreaped = @ - 1, !.reaps = @ + 1]

(***************************************************************************)
(* cleanup_gpg_tmpdir (lines 47-62): rm -rf gpg_tmpdir in a child whose    *)
(* status is not checked, then forget the directory.  The rm child is      *)
(* taken to run and to remove the directory it is given; with gpg_tmpdir   *)
(* NULL the argument list ends early and rm -rf removes nothing.           *)
(***************************************************************************)
cleanup_gpg_tmpdir(g) ==
    [g EXCEPT !.dirs = @ \ {g.tmpdir},
              !.nremoved = IF g.tmpdir \in g.dirs THEN @ + 1 ELSE @,
              !.tmpdir = NoDir,
              !.inited = 0]

(***************************************************************************)
(* exit(): every registration of the hook made by atexit (line 89) runs.   *)
(***************************************************************************)
RECURSIVE run_atexit(_, _)
run_atexit(g, k) ==
    IF k = 0 THEN g ELSE run_atexit(cleanup_gpg_tmpdir(g), k - 1)

process_exit(g) == run_atexit(g, g.hooks)

(***************************************************************************)
(* gpg_init (lines 65-94).  e gives what the environment answers:          *)
(* e.prog is getenv("DEBSIG_GNUPG_PROGRAM") ("unset" = NULL), e.mkdtemp,   *)
(* e.setenv and e.atexit say whether those calls succeed.  The result is   *)
(* the state and ok = FALSE when ohshit/ohshite was raised.                *)
(***************************************************************************)
\* gpg_init as it would be without the test of gpg_inited at its head
gpg_init_noguard(g, e) ==
    LET g1 == [g EXCEPT !.prog = IF e.prog # "unset" THEN e.prog ELSE @]
    IN IF ~e.mkdtemp THEN [g |-> [g1 EXCEPT !.tmpdir = NoDir], ok |-> FALSE]
       ELSE LET d == g1.ndirs + 1
                g2 == [g1 EXCEPT !.tmpdir = d, !.dirs = @ \cup {d}, !.ndirs = d]
            IN IF ~e.setenv THEN [g |-> g2, ok |-> FALSE]
               ELSE LET g3 == [g2 EXCEPT !.home = d]
                    IN IF ~e.atexit THEN [g |-> g3, ok |-> FALSE]
                       ELSE [g |-> [g3 EXCEPT !.hooks = @ + 1, !.inited = 1],
                             ok |-> TRUE]

gpg_init(g, e) ==
    IF g.inited # 0 THEN [g |-> g, ok |-> TRUE]
    ELSE LET g1 == [g EXCEPT !.prog = IF e.prog # "unset" THEN e.prog ELSE @]
         IN IF ~e.mkdtemp THEN [g |-> [g1 EXCEPT !.tmpdir = NoDir], ok |-> FALSE]
            ELSE LET d == g1.ndirs + 1
                     g2 == [g1 EXCEPT !.tmpdir = d, !.dirs = @ \cup {d}, !.ndirs = d]
                 IN IF ~e.setenv THEN [g |-> g2, ok |-> FALSE]
                    ELSE LET g3 == [g2 EXCEPT !.home = d]
                         IN IF ~e.atexit THEN [g |-> g3, ok |-> FALSE]
                            ELSE [g |-> [g3 EXCEPT !.hooks = @ + 1, !.inited = 1],
                                  ok |-> TRUE]

(***************************************************************************)
(* subproc_reap (dpkg): waits for the child and reduces its wait status.   *)
(* SUBPROC_NOCHECK returns the status unchecked; otherwise exit 0 gives 0, *)
(* a non-zero exit gives the exit status under SUBPROC_RETERROR, death by  *)
(* signal gives the signal number under SUBPROC_RETSIGNO, and every other  *)
(* case is a fatal error.  child is [kind, n]: "exit" with status n, or    *)
(* "signal" with signal number n.                                          *)
(***************************************************************************)
subproc_reap(child, flags) ==
    IF "SUBPROC_NOCHECK" \in flags THEN [fatal |-> FALSE, rc |-> child.n]
    ELSE IF child.kind = "exit"
         THEN IF child.n = 0 THEN [fatal |-> FALSE, rc |-> 0]
              ELSE IF "SUBPROC_RETERROR" \in flags THEN [fatal |-> FALSE, rc |-> child.n]
              ELSE [fatal |-> TRUE, rc |-> child.n]
         ELSE IF "SUBPROC_RETSIGNO" \in flags THEN [fatal |-> FALSE, rc |-> child.n]
              ELSE [fatal |-> TRUE, rc |-> child.n]

(***************************************************************************)
(* fgets(buf, sizeof(buf), ds): the pieces a newline-terminated line is    *)
(* read in.  A piece holds at most BufSize-1 characters; only the last     *)
(* piece of a line carries its newline.                                    *)
(***************************************************************************)
RECURSIVE fgets_line(_)
fgets_line(line) ==
    IF Len(line) <= BufSize - 1 THEN <<line>>
    ELSE <<SubSeq(line, 1, BufSize - 1)>> \o fgets_line(Drop(line, BufSize - 1))

RECURSIVE fgets_all(_)
\* the successive results of fgets over a stream given as its lines
fgets_all(stream) ==
    IF stream = <<>> THEN <<>>
    ELSE fgets_line(Head(stream)) \o fgets_all(Tail(stream))

\* what is read before a read error: all of it, or the first rderr pieces
fgets_until(stream, rderr) ==
    LET all == fgets_all(stream)
    IN IF rderr < 0 \/ rderr >= Len(all) THEN all ELSE SubSeq(all, 1, rderr)

(***************************************************************************)
(* The scan loop of gpg_getKeyID (lines 192-222): the value of ret when    *)
(* the loop ends.                                                          *)
(***************************************************************************)
PubTag == <<"p", "u", "b", ":">>
FprTag == <<"f", "p", "r", ":">>
UidTag == <<"u", "i", "d", ":">>

RECURSIVE keyid_scan(_, _, _, _, _)
keyid_scan(pieces, i, state, r, id) ==
    IF i > Len(pieces) THEN r
    ELSE LET buf == pieces[i]
         IN CASE state = "KEYID_UNKNOWN" ->
                   IF ~match_prefix(buf, PubTag)
                   THEN keyid_scan(pieces, i + 1, state, r, id)
                   ELSE keyid_scan(pieces, i + 1, "KEYID_PUB", r, id)
              [] state = "KEYID_PUB" ->
                   IF ~match_prefix(buf, FprTag)
                   THEN keyid_scan(pieces, i + 1, state, r, id)
                   ELSE keyid_scan(pieces, i + 1, "KEYID_FPR",
                                   get_colon_field(buf, COLON_FIELD_FPR_ID), id)
              [] OTHER ->
                   IF ~match_prefix(buf, UidTag)
                   THEN keyid_scan(pieces, i + 1, state, r, id)
                   ELSE LET uid == get_colon_field(buf, COLON_FIELD_UID_ID)
                        IN IF uid = RNull \/ uid.val # id
                           THEN keyid_scan(pieces, i + 1, state, r, id)
                           ELSE r

(***************************************************************************)
(* gpg_getSigKeyID's static buffer.  Bytes past Len(b) are still zero.     *)
(***************************************************************************)
BufGet(b, i) == IF i <= Len(b) THEN b[i] ELSE NUL

BufSet(b, i, c) ==
    IF i <= Len(b) THEN [b EXCEPT ![i] = c]
    ELSE IF c = NUL THEN b
    ELSE b \o [j \in 1..(i - Len(b) - 1) |-> NUL] \o <<c>>

\* fgets stores the piece and a NUL; what lay beyond them stays
BufStore(b, piece) ==
    IF Len(b) <= Len(piece) + 1 THEN piece
    ELSE piece \o <<NUL>> \o Drop(b, Len(piece) + 1)

\* the C string that starts at index p of the buffer
CStr(b, p) ==
    LET I == {i \in p..Len(b) : b[i] = NUL}
        e == IF I = {} THEN Len(b) + 1 ELSE Min(I)
    IN SubSeq(b, p, e - 1)

\* if ((c = strchr(buf, '\n')) != NULL) *c = '\0';  the newline ends the piece
StripNL(b, piece) ==
    IF piece[Len(piece)] = NL THEN BufSet(b, Len(piece), NUL) ELSE b

RECURSIVE skip_space(_, _)
skip_space(b, d) == IF isspace(BufGet(b, d)) THEN skip_space(b, d + 1) ELSE d

RECURSIVE skip_digit(_, _)
skip_digit(b, d) == IF isdigit(BufGet(b, d)) THEN skip_digit(b, d + 1) ELSE d

SigMarker == <<":", "s", "i", "g", "n", "a", "t", "u", "r", "e", " ",
               "p", "a", "c", "k", "e", "t", ":">>
keyid_str == <<"k", "e", "y", "i", "d">>
issuer_fpr_str == <<"i", "s", "s", "u", "e", "r", " ", "f", "p", "r", " ", "v">>

(***************************************************************************)
(* The scan loop of gpg_getSigKeyID (lines 290-334).  r is ret as an index *)
(* into the buffer (0 = NULL); broke says the loop left by break; oob says *)
(* the store ret[OPENPGP_FPR_LEN] = '\0' fell outside the buffer.          *)
(***************************************************************************)
RECURSIVE sigkey_scan(_, _, _, _, _)
sigkey_scan(pieces, i, state, b, r) ==
    IF i > Len(pieces) THEN [buf |-> b, r |-> r, broke |-> FALSE, oob |-> FALSE]
    ELSE LET piece == pieces[i]
             b1 == BufStore(b, piece)
         IN IF piece[1] = "#" THEN sigkey_scan(pieces, i + 1, state, b1, r)
            ELSE IF state = "KEYID_UNKNOWN"
            THEN IF match_prefix(piece, SigMarker)
                 THEN LET b2 == StripNL(b1, piece)
                          d == strstr(CStr(b2, 1), keyid_str)
                      IN IF d # 0
                         THEN sigkey_scan(pieces, i + 1, "KEYID_SIG", b2,
                                          skip_space(b2, d + Len(keyid_str)))
                         ELSE sigkey_scan(pieces, i + 1, "KEYID_SIG", b2, r)
                 ELSE sigkey_scan(pieces, i + 1, "KEYID_SIG", b1, r)
            ELSE LET d == strstr(piece, issuer_fpr_str)
                 IN IF d = 0 THEN sigkey_scan(pieces, i + 1, state, b1, r)
                    ELSE LET b2 == StripNL(b1, piece)
                             d1 == skip_space(b2, skip_digit(b2, d + Len(issuer_fpr_str)))
                         IN IF d1 + OPENPGP_FPR_LEN > BufSize
                            THEN [buf |-> b2, r |-> d1, broke |-> TRUE, oob |-> TRUE]
                            ELSE [buf |-> BufSet(b2, d1 + OPENPGP_FPR_LEN, NUL),
                                  r |-> d1, broke |-> TRUE, oob |-> FALSE]

(***************************************************************************)
(* The three backend operations, each computed from the state g at entry   *)
(* and the inputs a.  The result is the state at the point of return or    *)
(* abort, the value returned, and fatal = TRUE when ohshit/ohshite ended   *)
(* the call.  a.fail names the system call that fails, "none" if none.     *)
(***************************************************************************)
Out(g, r) == [g |-> g, ret |-> r, fatal |-> FALSE]
Fatal(g) == [g |-> g, ret |-> RFatal, fatal |-> TRUE]

\* gpg_getKeyID (lines 146-235)
gpg_getKeyID_run(g0, a) ==
    IF a.idnull THEN Out(g0, RNull)
    ELSE LET i == gpg_init(g0, a.env)
             g1 == i.g
         IN IF ~i.ok THEN Fatal(g1)
            ELSE IF ~a.keyring THEN Out(g1, RNull)
            ELSE IF a.fail = "pipe" THEN Fatal(g1)
            ELSE IF a.fail = "fork" THEN Fatal(Opened(g1, 2))
            ELSE LET g2 == Closed(Forked(Opened(g1, 2)), 1)
                 IN IF a.fail = "fdopen" THEN Out(g2, RNull)
                    ELSE LET r == keyid_scan(fgets_until(a.stream, a.rderr), 1,
                                             "KEYID_UNKNOWN", RNull, a.id)
                             g3 == Closed(g2, 1)
                             w == subproc_reap(a.child, {})
                             g4 == Reaped(g3)
                         IN IF w.fatal THEN Fatal(g4)
                            ELSE IF r = RNull THEN Out(g4, RStr(a.id))
                            ELSE Out(g4, r)

\* gpg_getSigKeyID (lines 237-347); b0 is the static buffer at entry
gpg_getSigKeyID_run(g0, b0, a) ==
    IF a.len = 0 THEN [g |-> g0, ret |-> RNull, fatal |-> FALSE, buf |-> b0, oob |-> FALSE]
    ELSE LET i == gpg_init(g0, a.env)
             g1 == i.g
             Abort(g) == [g |-> g, ret |-> RFatal, fatal |-> TRUE, buf |-> b0, oob |-> FALSE]
         IN IF ~i.ok THEN Abort(g1)
            ELSE IF a.fail = "pipe" THEN Abort(g1)
            ELSE IF a.fail = "pipe2" THEN Abort(Opened(g1, 2))
            ELSE IF a.fail \in {"fdopen", "fork"} THEN Abort(Opened(g1, 4))
            ELSE LET g2 == Closed(Forked(Opened(g1, 4)), 2)
                 IN IF a.fail \in {"copy", "close"} THEN Abort(g2)
                    ELSE LET g3 == Closed(g2, 1)
                             all == fgets_all(a.stream)
                             sc == sigkey_scan(fgets_until(a.stream, a.rderr), 1,
                                               "KEYID_UNKNOWN", b0, 0)
                             ferror == a.rderr >= 0 /\ a.rderr <= Len(all) /\ ~sc.broke
                             g3s == [g3 EXCEPT !.oob = sc.oob]
                             g4 == Closed(g3s, 1)
                             w == subproc_reap(a.child, {"SUBPROC_NOCHECK"})
                             g5 == Reaped(g4)
                         IN IF ferror
                            THEN [g |-> g3s, ret |-> RFatal, fatal |-> TRUE,
                                  buf |-> sc.buf, oob |-> sc.oob]
                            ELSE [g |-> g5,
                                  ret |-> IF sc.r = 0 THEN RNull
                                          ELSE RStr(CStr(sc.buf, sc.r)),
                                  fatal |-> FALSE, buf |-> sc.buf, oob |-> sc.oob]

\* the verdict as it would be if only a negative rc counted as failure
sigVerify_verdict_neg(rc) == IF rc < 0 THEN 0 ELSE 1

\* if (rc != 0) return 0; return 1;  (lines 381-386)
sigVerify_verdict(rc) == IF rc # 0 THEN 0 ELSE 1

\* gpg_sigVerify as it would be if the keyring were looked up after the fork
gpg_sigVerify_run_forkfirst(g0, a) ==
    LET i == gpg_init(g0, a.env)
        g1 == i.g
    IN IF ~i.ok THEN Fatal(g1)
       ELSE IF a.fail = "fork" THEN Fatal(g1)
       ELSE LET w == subproc_reap(a.child, {"SUBPROC_RETERROR", "SUBPROC_RETSIGNO"})
                g2 == Reaped(Forked(g1))
            IN IF ~a.keyring THEN Out(g2, RInt(0))
               ELSE IF w.fatal THEN Fatal(g2)
               ELSE Out(g2, RInt(sigVerify_verdict(w.rc)))

\* gpg_sigVerify (lines 349-387)
gpg_sigVerify_run(g0, a) ==
    LET i == gpg_init(g0, a.env)
        g1 == i.g
    IN IF ~i.ok THEN Fatal(g1)
       ELSE IF ~a.keyring THEN Out(g1, RInt(0))
       ELSE IF a.fail = "fork" THEN Fatal(g1)
       ELSE LET w == subproc_reap(a.child, {"SUBPROC_RETERROR", "SUBPROC_RETSIGNO"})
                g2 == Reaped(Forked(g1))
            IN IF w.fatal THEN Fatal(g2)
               ELSE Out(g2, RInt(sigVerify_verdict(w.rc)))

(***************************************************************************)
(* Actions.  A fatal error unwinds to exit(2), which runs the atexit       *)
(* hooks; an out-of-bounds store is undefined behaviour, which either      *)
(* goes unnoticed or kills the process on the spot (a.oobkills).           *)
(***************************************************************************)
Finish(o) ==
    IF o.fatal
    THEN Commit(process_exit(o.g)) /\ proc' = "aborted"
    ELSE Commit(o.g) /\ proc' = "running"

gpg_getKeyID(a) ==
    /\ proc = "running"
    /\ ncalls < MaxCalls
    /\ LET o == gpg_getKeyID_run(G, a)
       IN Finish(o) /\ ret' = o.ret
    /\ ncalls' = ncalls + 1
    /\ op' = "getKeyID"
    /\ arg' = a
    /\ UNCHANGED <<sigbuf, pipe>>

gpg_getSigKeyID(a) ==
    /\ proc = "running"
    /\ ncalls < MaxCalls
    /\ LET o == gpg_getSigKeyID_run(G, sigbuf, a)
       IN IF o.oob /\ a.oobkills
          THEN Commit(o.g) /\ proc' = "crashed" /\ ret' = RFatal /\ sigbuf' = o.buf
          ELSE Finish(o) /\ ret' = o.ret /\ sigbuf' = o.buf
    /\ ncalls' = ncalls + 1
    /\ op' = "getSigKeyID"
    /\ arg' = a
    /\ UNCHANGED pipe

gpg_sigVerify(a) ==
    /\ proc = "running"
    /\ ncalls < MaxCalls
    /\ LET o == gpg_sigVerify_run(G, a)
       IN Finish(o) /\ ret' = o.ret
    /\ ncalls' = ncalls + 1
    /\ op' = "sigVerify"
    /\ arg' = a
    /\ UNCHANGED <<sigbuf, pipe>>

\* the program ends normally: exit(0) runs the atexit hooks
ProcessExit ==
    /\ proc = "running"
    /\ Commit(process_exit(G))
    /\ proc' = "exited"
    /\ op' = "exit"
    /\ arg' = <<>>
    /\ ret' = RNone
    /\ UNCHANGED <<ncalls, sigbuf, pipe>>

(***************************************************************************)
(* Inputs.                                                                 *)
(***************************************************************************)
SeqsUpTo(V, n) == UNION {[1..k -> V] : k \in 0..n}

\* what the environment answers to gpg_init: the first step that fails, if any
EnvOK == [prog |-> "unset", mkdtemp |-> TRUE, setenv |-> TRUE, atexit |-> TRUE]
EnvAfter == {EnvOK, [EnvOK EXCEPT !.prog = "gpg2"]}
EnvCases == EnvAfter \cup {[EnvOK EXCEPT !.mkdtemp = FALSE],
                           [EnvOK EXCEPT !.setenv = FALSE],
                           [EnvOK EXCEPT !.atexit = FALSE]}
\* gpg_init asks the environment only while gpg_inited is 0
EnvNow == IF gpg_inited = 0 THEN EnvCases ELSE EnvAfter

Exit0 == [kind |-> "exit", n |-> 0]
Children == {[kind |-> "exit", n |-> c] : c \in 0..MaxExit}
            \cup {[kind |-> "signal", n |-> 9]}

\* colon listing lines: a tag, empty fields 2..9, field 10, a closing colon
Rec(tag, f10) == tag \o [i \in 1..8 |-> ":"] \o f10 \o <<":", NL>>
IdA == <<"I", "D">>
IdOther == <<"O">>
FprA == <<"A", "A">>
FprB == <<"B", "B">>
KPub == Rec(PubTag, <<"K">>)
KFprA == Rec(FprTag, FprA)
KFprB == Rec(FprTag, FprB)
KUid == Rec(UidTag, IdA)
KUidOther == Rec(UidTag, IdOther)
KLong == Pad(BufSize - 1) \o KPub      \* one line, longer than the buffer
KeyVocab == {KPub, KFprA, KFprB, KUid, KUidOther, KLong}

\* packet listing lines
KeyIdA == <<"K", "1", "2", "3">>
Fpr40 == [i \in 1..OPENPGP_FPR_LEN |-> "F"]
IssuerText == <<"\t", "(">> \o issuer_fpr_str \o <<"4", " ">>
SCom == <<"#", " ", "c", NL>>
SSig == SigMarker \o <<" ", "a", "l", "g", "o", " ", "1", ",", " ">>
        \o keyid_str \o <<" ">> \o KeyIdA \o <<NL>>
SOther == <<":", "p", "u", "b", "k", "e", "y", " ", "p", "a", "c", "k", "e", "t", ":", NL>>
SSubShort == <<"\t", "v", "e", "r", "s", "i", "o", "n", " ", "4", NL>>
SSubLong == <<"\t", "h", "a", "s", "h", "e", "d", " ">> \o Pad(OPENPGP_FPR_LEN) \o <<NL>>
SFpr == IssuerText \o Fpr40 \o <<")", NL>>
SFprTrail == IssuerText \o Fpr40 \o <<"Z", "Z", ")", NL>>
\* the marker lies across the end of the first piece fgets reads
SFprLong == Pad(BufSize - 8) \o issuer_fpr_str \o <<"4", " ">> \o Fpr40 \o <<NL>>
\* a line that fits the buffer, with the marker close to its end
SFprEnd == Pad(BufSize - 30) \o issuer_fpr_str \o <<"4", " ", "F", "F", NL>>
SigVocab == {SCom, SSig, SOther, SSubShort, SSubLong, SFpr, SFprTrail, SFprLong, SFprEnd}

KArg(idnull, id, env, keyring, fail, stream, rderr, child) ==
    [idnull |-> idnull, id |-> id, env |-> env, keyring |-> keyring, fail |-> fail,
     stream |-> stream, rderr |-> rderr, child |-> child]

SArg(len, env, fail, stream, rderr, child, oobkills) ==
    [len |-> len, env |-> env, fail |-> fail, stream |-> stream, rderr |-> rderr,
     child |-> child, oobkills |-> oobkills]

VArg(env, keyring, debug, fail, child) ==
    [env |-> env, keyring |-> keyring, debug |-> debug, fail |-> fail, child |-> child]

\* the calls of the whole-process specification
LifeKeyStreams == SeqsUpTo({KPub, KUid}, MaxLifeLines)
LifeSigStreams == SeqsUpTo({SSig, SFpr}, MaxLifeLines)

LifeKeyArgs(E) ==
    {KArg(TRUE, IdA, EnvOK, TRUE, "none", <<>>, -1, Exit0)}
    \cup {KArg(FALSE, IdA, e, FALSE, "none", <<>>, -1, Exit0) : e \in E}
    \cup {KArg(FALSE, IdA, e, TRUE, f, <<>>, -1, Exit0) :
             e \in E, f \in {"pipe", "fork", "fdopen"}}
    \cup {KArg(FALSE, IdA, e, TRUE, "fdopen", <<>>, -1, [kind |-> "exit", n |-> 1]) :
             e \in E}
    \cup {KArg(FALSE, IdA, e, TRUE, "none", s, -1, c) :
             e \in E, s \in LifeKeyStreams, c \in Children}
    \cup {KArg(FALSE, IdA, e, TRUE, "none", s, 0, Exit0) :
             e \in E, s \in LifeKeyStreams}

LifeSigArgs(E) ==
    {SArg(0, EnvOK, "none", <<>>, -1, Exit0, FALSE)}
    \cup {SArg(1, e, f, <<>>, -1, Exit0, FALSE) :
             e \in E, f \in {"pipe", "pipe2", "fdopen", "fork", "copy", "close"}}
    \cup {SArg(1, e, "none", s, -1, c, FALSE) :
             e \in E, s \in LifeSigStreams, c \in Children}
    \cup {SArg(1, e, "none", s, 0, Exit0, FALSE) :
             e \in E, s \in LifeSigStreams}

LifeVerifyArgs(E) ==
    {VArg(e, FALSE, d, "none", Exit0) : e \in E, d \in BOOLEAN}
    \cup {VArg(e, TRUE, d, "fork", Exit0) : e \in E, d \in BOOLEAN}
    \cup {VArg(e, TRUE, d, "none", c) : e \in E, d \in BOOLEAN, c \in Children}

\* the calls of the parser specifications: a working environment, a child that exits 0
KeyArgs == {KArg(FALSE, IdA, EnvOK, TRUE, "none", s, -1, Exit0) :
               s \in SeqsUpTo(KeyVocab, MaxKeyLines)}
SigArgs == {SArg(1, EnvOK, "none", s, -1, Exit0, k) :
               s \in SeqsUpTo(SigVocab, MaxSigLines), k \in BOOLEAN}
FieldArgs == [line : SeqsUpTo({":", "a", "b"}, MaxFieldLen), n : 1..MaxFieldNum]

\* before gpg_getSigKeyID has made its pipes and its child
PipeIdle == [ppc |-> "idle", cpc |-> "none", left |-> 0, cap |-> 0, inq |-> 0,
             outq |-> 0, cpend |-> 0, wopen |-> FALSE, ropen |-> FALSE]
PipeArgs == [len : 1..MaxSigLen, cap : 1..MaxPipeCap]

(***************************************************************************)
(* Specifications.                                                         *)
(***************************************************************************)
InitGlobals ==
    /\ gpg_inited = 0
    /\ gpg_tmpdir = NoDir
    /\ gpg_prog = "gpg"
    /\ GNUPGHOME = NoDir
    /\ atexit_hooks = 0
    /\ dirs = {}
    /\ ndirs = 0
    /\ nremoved = 0
    /\ fds = 0
    /\ unreaped = 0
    /\ proc = "running"
    /\ ncalls = 0
    /\ sigbuf = <<>>
    /\ eff = [forks |-> 0, reaps |-> 0, opened |-> 0, closed |-> 0, oob |-> FALSE]
    /\ pipe = PipeIdle

\* the whole process: any sequence of backend calls, then exit
Init == InitGlobals /\ op = "init" /\ arg = <<>> /\ ret = RNone

CallGetKeyID == \E a \in LifeKeyArgs(EnvNow) : gpg_getKeyID(a)
CallGetSigKeyID == \E a \in LifeSigArgs(EnvNow) : gpg_getSigKeyID(a)
CallSigVerify == \E a \in LifeVerifyArgs(EnvNow) : gpg_sigVerify(a)

Next == CallGetKeyID \/ CallGetSigKeyID \/ CallSigVerify \/ ProcessExit

Spec == Init /\ [][Next]_vars

\* gpg_getKeyID on a colon listing chosen at the start
InitKeyID == InitGlobals /\ op = "pending" /\ arg \in KeyArgs /\ ret = RNone
ApplyGetKeyID == op = "pending" /\ gpg_getKeyID(arg)
SpecKeyID == InitKeyID /\ [][ApplyGetKeyID]_vars

\* gpg_getSigKeyID on a packet listing chosen at the start
InitSigKeyID == InitGlobals /\ op = "pending" /\ arg \in SigArgs /\ ret = RNone
ApplyGetSigKeyID == op = "pending" /\ gpg_getSigKeyID(arg)
SpecSigKeyID == InitSigKeyID /\ [][ApplyGetSigKeyID]_vars

\* get_colon_field on a line and a field number chosen at the start
InitField == InitGlobals /\ op = "pending" /\ arg \in FieldArgs /\ ret = RNone
ApplyColonField ==
    /\ op = "pending"
    /\ op' = "get_colon_field"
    /\ ret' = get_colon_field(arg.line, arg.n)
    /\ UNCHANGED <<gpg_inited, gpg_tmpdir, gpg_prog, GNUPGHOME, atexit_hooks, dirs, ndirs,
                   nremoved, fds, unreaped, proc, ncalls, sigbuf, arg, eff, pipe>>
SpecField == InitField /\ [][ApplyColonField]_vars

(***************************************************************************)
(* gpg_getSigKeyID between its fork and its return, one blocking call at a *)
(* time (lines 255-339).  pwrite carries the signature to the child's      *)
(* stdin and pread the child's listing back; each holds at most pipe.cap   *)
(* blocks, a write to a full pipe and a read of an empty one block.  The   *)
(* child is a filter: it reads a block, writes the block of listing it     *)
(* owes for it (pipe.cpend), and ends at the end of its input.             *)
(***************************************************************************)
PipeRest == <<gpg_inited, gpg_tmpdir, gpg_prog, GNUPGHOME, atexit_hooks, dirs, ndirs,
              nremoved, fds, unreaped, proc, ncalls, sigbuf, op, arg, ret, eff>>

\* pipe(pread), pipe(pwrite), fdopen, subproc_fork, close of the child's ends
PipeFork ==
    /\ op = "pipe"
    /\ pipe.ppc = "idle"
    /\ pipe' = [ppc |-> "copy", cpc |-> "run", left |-> arg.len, cap |-> arg.cap,
                inq |-> 0, outq |-> 0, cpend |-> 0, wopen |-> TRUE, ropen |-> TRUE]
    /\ UNCHANGED PipeRest

\* fd_fd_copy(deb->fd, pwrite[1], len): one more block written to the child
ParentWrite ==
    /\ pipe.ppc = "copy"
    /\ pipe.left > 0
    /\ pipe.inq < pipe.cap
    /\ pipe' = [pipe EXCEPT !.left = @ - 1, !.inq = @ + 1]
    /\ UNCHANGED PipeRest

\* fd_fd_copy has written everything: close(pwrite[1]), on to the read loop
ParentCloseWrite ==
    /\ pipe.ppc = "copy"
    /\ pipe.left = 0
    /\ pipe' = [pipe EXCEPT !.wopen = FALSE, !.ppc = "read"]
    /\ UNCHANGED PipeRest

\* fgets gets a block of the listing; on break the stream is closed at once
ParentRead(brk) ==
    /\ pipe.ppc = "read"
    /\ pipe.outq > 0
    /\ pipe' = IF brk THEN [pipe EXCEPT !.outq = 0, !.ropen = FALSE, !.ppc = "reap"]
               ELSE [pipe EXCEPT !.outq = @ - 1]
    /\ UNCHANGED PipeRest

\* fgets returns NULL at the end of the listing: fclose(ds_read)
ParentEOF ==
    /\ pipe.ppc = "read"
    /\ pipe.outq = 0
    /\ pipe.cpc = "exited"
    /\ pipe' = [pipe EXCEPT !.ropen = FALSE, !.ppc = "reap"]
    /\ UNCHANGED PipeRest

\* subproc_reap returns once the child has ended
ParentReap ==
    /\ pipe.ppc = "reap"
    /\ pipe.cpc = "exited"
    /\ pipe' = [pipe EXCEPT !.ppc = "done"]
    /\ UNCHANGED PipeRest

\* the child reads a block of the signature from its stdin
ChildRead ==
    /\ pipe.cpc = "run"
    /\ pipe.cpend = 0
    /\ pipe.inq > 0
    /\ pipe' = [pipe EXCEPT !.inq = @ - 1, !.cpend = 1]
    /\ UNCHANGED PipeRest

\* the child writes the listing it owes to its stdout
ChildWrite ==
    /\ pipe.cpc = "run"
    /\ pipe.cpend > 0
    /\ pipe.ropen
    /\ pipe.outq < pipe.cap
    /\ pipe' = [pipe EXCEPT !.cpend = @ - 1, !.outq = @ + 1]
    /\ UNCHANGED PipeRest

\* the child writes to a pipe nobody reads any more: SIGPIPE
ChildSigpipe ==
    /\ pipe.cpc = "run"
    /\ pipe.cpend > 0
    /\ ~pipe.ropen
    /\ pipe' = [pipe EXCEPT !.cpc = "exited", !.cpend = 0]
    /\ UNCHANGED PipeRest

\* the child finds the end of its input and exits
ChildExit ==
    /\ pipe.cpc = "run"
    /\ pipe.cpend = 0
    /\ pipe.inq = 0
    /\ ~pipe.wopen
    /\ pipe' = [pipe EXCEPT !.cpc = "exited"]
    /\ UNCHANGED PipeRest

InitPipe == InitGlobals /\ op = "pipe" /\ arg \in PipeArgs /\ ret = RNone
NextPipe ==
    \/ PipeFork
    \/ ParentWrite
    \/ ParentCloseWrite
    \/ \E brk \in BOOLEAN : ParentRead(brk)
    \/ ParentEOF
    \/ ParentReap
    \/ ChildRead
    \/ ChildWrite
    \/ ChildSigpipe
    \/ ChildExit
SpecPipe == InitPipe /\ [][NextPipe]_vars

(***************************************************************************)
(* What the claims speak of, read off the input independently of the code. *)
(***************************************************************************)
ColonIdx(s) == {i \in 1..Len(s) : s[i] = ":"}

\* the index of the n-th colon of s; 0 for n = 0
NthColon(s, n) ==
    IF n = 0 THEN 0
    ELSE CHOOSE c \in ColonIdx(s) : Cardinality({j \in ColonIdx(s) : j <= c}) = n

\* the n-th colon-terminated field of a line, RNull when the line has fewer
FieldOf(s, n) ==
    IF Cardinality(ColonIdx(s)) < n THEN RNull
    ELSE RStr(SubSeq(s, NthColon(s, n - 1) + 1, NthColon(s, n) - 1))

Body(l) == IF l # <<>> /\ l[Len(l)] = NL THEN SubSeq(l, 1, Len(l) - 1) ELSE l

IsPubLine(l) == match_prefix(l, PubTag)
IsFprLine(l) == match_prefix(l, FprTag)
IsUidMatch(l, id) == match_prefix(l, UidTag) /\ FieldOf(l, COLON_FIELD_UID_ID) = RStr(id)

\* the positions j of fingerprint records that lie between a certificate record
\* and a user-identity record matching id
FprOfTriples(s, id) ==
    {j \in 1..Len(s) : /\ IsFprLine(s[j])
                       /\ \E i \in 1..(j - 1) : IsPubLine(s[i])
                       /\ \E k \in (j + 1)..Len(s) : IsUidMatch(s[k], id)}

IsSigLine(l) == match_prefix(l, SigMarker)
HasKeyid(l) == strstr(l, keyid_str) # 0
HasIssuer(l) == strstr(l, issuer_fpr_str) # 0

\* the text after "keyid" and the whitespace that follows it
KeyidText(l) ==
    LET b == Body(l)
    IN SubSeq(b, skip_space(b, strstr(b, keyid_str) + Len(keyid_str)), Len(b))

\* the text after "issuer fpr v", its version digits and the whitespace after them
IssuerFprText(l) ==
    LET b == Body(l)
        d == strstr(b, issuer_fpr_str) + Len(issuer_fpr_str)
    IN SubSeq(b, skip_space(b, skip_digit(b, d)), Len(b))

\* every line of the stream fits the line buffer, newline included
LinesFit(s) == \A k \in 1..Len(s) : Len(s[k]) <= BufSize - 1

Returned == proc = "running" /\ ret.kind \in {"str", "null", "int"}
InitFailed(e) == ~(e.mkdtemp /\ e.setenv /\ e.atexit)

(***************************************************************************)
(* C1: gpg_sigVerify returns 1 exactly when the keyring path was resolved  *)
(* and the child exited normally with status 0; it returns 0 for every     *)
(* other exit status and for death by signal, with the child's standard    *)
(* streams closed or attached; it ends in a fatal error only when gpg_init *)
(* or fork failed.                                                         *)
(***************************************************************************)
C1_VerifyVerdict ==
    op = "sigVerify" =>
        /\ ret.kind \in {"int", "fatal"}
        /\ ret.kind = "int" =>
              /\ ret.n \in {0, 1}
              /\ ret.n = 1 <=> (arg.keyring /\ arg.child = Exit0)
        /\ ret.kind = "fatal" => (arg.fail = "fork" \/ InitFailed(arg.env))

C1_Witness ==
    /\ op = "sigVerify"
    /\ ret = RInt(1)
    /\ ~arg.debug
    /\ arg.keyring

(***************************************************************************)
(* C2: when the listing holds a pub: record, then a fpr: record, then a    *)
(* uid: record whose field 10 is the expected identity, gpg_getKeyID       *)
(* returns field 10 of such a fpr: record.                                 *)
(***************************************************************************)
C2_FingerprintReturned ==
    (op = "getKeyID" /\ Returned /\ FprOfTriples(arg.stream, arg.id) # {}) =>
        \E j \in FprOfTriples(arg.stream, arg.id) :
            ret = FieldOf(arg.stream[j], COLON_FIELD_FPR_ID)

(***************************************************************************)
(* C3: when the listing ends without a uid: record whose field 10 is the   *)
(* expected identity, gpg_getKeyID returns the expected identity.          *)
(***************************************************************************)
C3_FallbackOnNoMatch ==
    (/\ op = "getKeyID"
     /\ Returned
     /\ \A k \in 1..Len(arg.stream) : ~IsUidMatch(arg.stream[k], arg.id)) =>
        ret = RStr(arg.id)

(***************************************************************************)
(* C4: when no line of the listing starts with "pub:", gpg_getKeyID        *)
(* returns the expected identity.                                          *)
(***************************************************************************)
C4_FallbackOnNoCertificate ==
    (/\ op = "getKeyID"
     /\ Returned
     /\ \A k \in 1..Len(arg.stream) : ~IsPubLine(arg.stream[k])) =>
        ret = RStr(arg.id)

\* C4 restricted to listings whose lines fit the line buffer
KeyID_NoCertificate_LinesFit ==
    LinesFit(arg.stream) => C4_FallbackOnNoCertificate

(***************************************************************************)
(* C5: when the packet listing holds exactly one signature packet line,    *)
(* with a keyid, and after it exactly one issuer fingerprint line,         *)
(* gpg_getSigKeyID returns that line's fingerprint text cut to             *)
(* OPENPGP_FPR_LEN characters.                                             *)
(***************************************************************************)
C5_IssuerFingerprint ==
    LET s == arg.stream
        sigs == {i \in 1..Len(s) : IsSigLine(s[i])}
        fprs == {j \in 1..Len(s) : HasIssuer(s[j])}
    IN (/\ op = "getSigKeyID"
        /\ Returned
        /\ Cardinality(sigs) = 1
        /\ Cardinality(fprs) = 1
        /\ \A i \in sigs : HasKeyid(s[i]) /\ \A j \in fprs : i < j) =>
           \A j \in fprs : ret = RStr(Take(IssuerFprText(s[j]), OPENPGP_FPR_LEN))

\* C5 restricted to listings whose lines fit the line buffer
SigKeyID_IssuerFingerprint_LinesFit ==
    LinesFit(arg.stream) => C5_IssuerFingerprint

(***************************************************************************)
(* C6: when the packet listing holds a signature packet line with a keyid  *)
(* and no line holds the issuer fingerprint marker, gpg_getSigKeyID        *)
(* returns that keyid, whatever other lines come before or after.          *)
(***************************************************************************)
C6_KeyidFallback ==
    LET s == arg.stream
        sigs == {i \in 1..Len(s) : IsSigLine(s[i]) /\ HasKeyid(s[i])}
    IN (/\ op = "getSigKeyID"
        /\ Returned
        /\ sigs # {}
        /\ \A j \in 1..Len(s) : ~HasIssuer(s[j])) =>
           \E i \in sigs : ret = RStr(KeyidText(s[i]))

(***************************************************************************)
(* C7: when no line of the packet listing starts with ":signature          *)
(* packet:", gpg_getSigKeyID returns NULL and raises no fatal error.       *)
(***************************************************************************)
C7_Unresolvable ==
    (/\ op = "getSigKeyID"
     /\ proc # "crashed"
     /\ \A i \in 1..Len(arg.stream) : ~IsSigLine(arg.stream[i])) =>
        ret = RNull

(***************************************************************************)
(* C8: get_colon_field(line, n) is NULL whenever the line has fewer than n *)
(* colons, and reads nothing past the line's NUL.                          *)
(***************************************************************************)
C8_FieldAbsent ==
    op = "get_colon_field" =>
        /\ Cardinality(ColonIdx(arg.line)) < arg.n => ret = RNull
        /\ colon_field_reach(arg.line, arg.n) <= Len(arg.line) + 1

(***************************************************************************)
(* C9: once gpg_init has created the directory, the end of the process, by *)
(* exit or by a fatal error, finds it removed, and removed once.           *)
(***************************************************************************)
C9_RemovedAtExit ==
    (proc \in {"exited", "aborted"} /\ ndirs >= 1) =>
        (dirs = {} /\ nremoved = 1)

(***************************************************************************)
(* C10: gpg_init creates at most one directory and registers the exit hook *)
(* at most once, and a call made once gpg_inited is set leaves gpg_tmpdir, *)
(* GNUPGHOME and gpg_prog as they are.                                     *)
(***************************************************************************)
C10_InitOnce ==
    /\ [](ndirs <= 1 /\ atexit_hooks <= 1)
    /\ [][(gpg_inited # 0 /\ proc' = "running") =>
             UNCHANGED <<gpg_tmpdir, GNUPGHOME, gpg_prog, ndirs, atexit_hooks, dirs>>]_vars

C10_Witness ==
    /\ op \in {"getKeyID", "getSigKeyID", "sigVerify"}
    /\ ncalls >= 2
    /\ gpg_inited = 1
    /\ ndirs = 1
    /\ atexit_hooks = 1
    /\ arg.env.prog = "gpg2"
    /\ gpg_prog = "gpg"

(***************************************************************************)
(* C11: once cleanup_gpg_tmpdir has run, the temporary directory is gone   *)
(* and GNUPGHOME no longer names it.                                       *)
(***************************************************************************)
C11_OverrideCleared ==
    (proc \in {"exited", "aborted"} /\ atexit_hooks >= 1) =>
        (dirs = {} /\ GNUPGHOME = NoDir)

(***************************************************************************)
(* C12: when getDbPathname gives no keyring path, gpg_getKeyID returns     *)
(* NULL and gpg_sigVerify returns 0, and neither has made a pipe or forked *)
(* a child; the same holds of gpg_getKeyID when it is given no identity.   *)
(***************************************************************************)
C12_NoKeyringNoSpawn ==
    /\ (op = "getKeyID" /\ (arg.idnull \/ (~arg.keyring /\ ~InitFailed(arg.env)))) =>
          (Returned /\ ret = RNull /\ eff.forks = 0 /\ eff.opened = 0)
    /\ (op = "sigVerify" /\ ~arg.keyring /\ ~InitFailed(arg.env)) =>
          (Returned /\ ret = RInt(0) /\ eff.forks = 0 /\ eff.opened = 0)

C12_Witness ==
    /\ op = "sigVerify"
    /\ ~arg.keyring
    /\ gpg_inited = 1
    /\ ncalls = 2
    /\ ret = RInt(0)
    /\ eff.forks = 0

BackendOps == {"getKeyID", "getSigKeyID", "sigVerify"}

(***************************************************************************)
(* C13: a call that returns to its caller has waited for every verifier    *)
(* child it forked, whichever return it took.                              *)
(***************************************************************************)
C13_ChildReaped ==
    (op \in BackendOps /\ Returned) => eff.reaps = eff.forks

(***************************************************************************)
(* C14: when gpg_getKeyID or gpg_getSigKeyID returns, the parent has       *)
(* closed every pipe descriptor the call created, so that no descriptor    *)
(* stays open after any sequence of calls.                                 *)
(***************************************************************************)
C14_DescriptorsClosed ==
    (op \in {"getKeyID", "getSigKeyID"} /\ Returned) =>
        (eff.closed = eff.opened /\ fds = 0)

(***************************************************************************)
(* C15: in a call that forked the verifier and waited for it, a child that *)
(* ends with a non-zero status or by a signal gives the caller another     *)
(* outcome than the same call, from the same state, with a child that      *)
(* exits 0.                                                                *)
(***************************************************************************)
C15_StatusNotSwallowed ==
    [][(op' \in BackendOps /\ eff'.forks = 1 /\ eff'.reaps = 1 /\ arg'.child # Exit0) =>
          LET a0 == [arg' EXCEPT !.child = Exit0]
              r0 == CASE op' = "getKeyID" -> gpg_getKeyID_run(G, a0).ret
                      [] op' = "getSigKeyID" -> gpg_getSigKeyID_run(G, sigbuf, a0).ret
                      [] op' = "sigVerify" -> gpg_sigVerify_run(G, a0).ret
          IN ret' # r0]_vars

(***************************************************************************)
(* C16: when the child forked by gpg_getKeyID ends with a non-zero status  *)
(* or by a signal, the call ends in a fatal error and returns nothing.     *)
(***************************************************************************)
C16_ListingFailureFatal ==
    (op = "getKeyID" /\ eff.forks = 1 /\ arg.child # Exit0) =>
        (proc = "aborted" /\ ret = RFatal)

(***************************************************************************)
(* C17: when the first read of the child's output fails, gpg_getKeyID and  *)
(* gpg_getSigKeyID end in a fatal error and return nothing.                *)
(***************************************************************************)
C17_ReadErrorFatal ==
    (op \in {"getKeyID", "getSigKeyID"} /\ eff.forks = 1 /\ arg.fail = "none"
     /\ arg.rderr = 0) =>
        (proc = "aborted" /\ ret = RFatal)

\* a line that opens a packet record of the listing, such as ":pubkey packet:"
IsPacketHeader(l) == l # <<>> /\ l[1] = ":"

(***************************************************************************)
(* C18: when the listing opens with a signature packet line carrying a     *)
(* keyid, and the first issuer-fingerprint marker stands on a line after   *)
(* the next packet header line, the fingerprint of that later line is not  *)
(* what gpg_getSigKeyID returns.                                           *)
(***************************************************************************)
C18_LaterPacketIgnored ==
    (op = "getSigKeyID" /\ Returned /\ LinesFit(arg.stream)) =>
        LET s == arg.stream
        IN \A h \in 2..Len(s) : \A j \in (h + 1)..Len(s) :
              (/\ IsSigLine(s[1]) /\ HasKeyid(s[1])
               /\ IsPacketHeader(s[h])
               /\ \A k \in 1..(j - 1) : ~HasIssuer(s[k])
               /\ HasIssuer(s[j]))
              => ret # RStr(Take(IssuerFprText(s[j]), OPENPGP_FPR_LEN))

(***************************************************************************)
(* C20: for lines that fit the buffer, the store ret[OPENPGP_FPR_LEN] = 0  *)
(* of gpg_getSigKeyID falls inside buf[2048].                              *)
(***************************************************************************)
C20_StoreInBuffer ==
    (op = "getSigKeyID" /\ LinesFit(arg.stream)) => ~eff.oob

(***************************************************************************)
(* C19: whatever the length of the signature and the capacity of the       *)
(* pipes, gpg_getSigKeyID with a child that keeps reading its input and    *)
(* writing its listing is never stuck: until the call is over, the parent  *)
(* or the child can take a step.                                           *)
(***************************************************************************)
C19_NeverStuck ==
    (op = "pipe" /\ pipe.ppc # "done") => ENABLED NextPipe

====
